---- MODULE Spec2Model ----
(***************************************************************************)
(* Model of src/Main.cpp: three greedy route selection algorithms          *)
(* (VisitMostPlaces, VisitByValue, VisitByHourValue) over a catalog of     *)
(* places, each sorting a working copy and accepting places until the      *)
(* accumulated time exceeds the time budget.                               *)
(*                                                                         *)
(* Time values.  Every float of the program (Place::time, VISIT_TIME,      *)
(* SLEEP_TIME, accTime) is a multiple of 0.5 far below 2^24, so float      *)
(* addition and comparison are exact; the model stores a time as its       *)
(* number of half hours (operator F).                                      *)
(*                                                                         *)
(* hourVal.  PlaceHV::hourVal = value / time is a correctly rounded float  *)
(* quotient of two small integers.  Two such quotients are equal as floats *)
(* iff they are equal as rationals (distinct quotients of integers below   *)
(* 2^7 differ by far more than one ulp), so the model keeps the pair       *)
(* <<value, time>> and compares by cross multiplication; a zero time gives *)
(* +inf (value > 0) or NaN (value = 0) as IEEE division does.              *)
(*                                                                         *)
(* std::sort.  The order of elements that the comparator leaves            *)
(* equivalent is unspecified by the language; a given build resolves it    *)
(* deterministically as a function of the input sequence and of the        *)
(* comparator, and the three sort calls (CTL, CVG, CHVG) resolve their     *)
(* ties independently of each other.  The variable prio is that build's    *)
(* resolution: for each of the three sort calls a ranking of the input     *)
(* positions that orders equivalent elements (ascending positions are a    *)
(* stable sort).  It is chosen nondeterministically in Init, one ranking   *)
(* per sort call, and never changes.                                       *)
(***************************************************************************)
EXTENDS Integers, Sequences, FiniteSets, TLC

VARIABLES places,    \* the catalog test::places
          time,      \* the budget VISIT_TIME - SLEEP_TIME (half hours)
          prio,      \* per sort call, how this build orders equivalent elements
          pc,        \* "idle", "loop" (inside the for loop), "break"
          alg,       \* the algorithm being executed, "" when idle
          temp,      \* the sorted working copy (temp / placesHV)
          it,        \* position of the range-for iterator in temp
          accTime,   \* the accumulator accTime
          res,       \* res.places of the Route under construction
          out        \* per algorithm, the set of Routes main has printed

vars == <<places, time, prio, pc, alg, temp, it, accTime, res, out>>

\* ---------------------------------------------------------------- bounds
MaxLen    == 2   \* longest catalog of the bounded specification
MaxTime   == 2   \* largest Place::time (half hours) of a bounded catalog
MaxValue  == 1   \* largest Place::value of a bounded catalog
MaxBudget == 3   \* largest budget of the bounded specification

\* ------------------------------------------------------------- constants
VISIT_TIME == 48
SLEEP_TIME == 16

\* a float literal whole.5*halves, in half hours
F(whole, halves) == 2 * whole + halves

Place(n, t, v) == [name |-> n, time |-> t, value |-> v]

Algs == {"VisitMostPlaces", "VisitByValue", "VisitByHourValue"}

\* the reference catalog
RefPlaces ==
  << Place("Isaakievskij sobor",                              F(5, 0),  10),
     Place("Ermitazh",                                        F(8, 0),  11),
     Place("Kunstkamera",                                     F(3, 1),  4),
     Place("Petropavlovskaya krepost",                        F(10, 0), 7),
     Place("Leningradskij zoopark",                           F(9, 0),  15),
     Place("Mednyj vsadnik",                                  F(1, 0),  17),
     Place("Kazanskij sobor",                                 F(4, 0),  3),
     Place("Spas na Krovi",                                   F(2, 0),  9),
     Place("Zimnij dvorec Petra I",                           F(7, 0),  12),
     Place("Zoologicheskij muzej",                            F(5, 1),  6),
     Place("Muzej oborony i blokady Leningrada",              F(2, 0),  19),
     Place("Russkij muzej",                                   F(5, 0),  8),
     Place("Navestit druzej",                                 F(12, 0), 20),
     Place("Muzej voskovyh figur",                            F(2, 0),  13),
     Place("Literaturno-memorialnyj muzej F.M. Dostoevskogo", F(4, 0),  2),
     Place("Ekaterininskij dvorec",                           F(1, 1),  5),
     Place("Peterburgskij muzej kukol",                       F(1, 0),  14),
     Place("Muzej mikrominiatyury \"Russkij Levsha\"",        F(3, 0),  18),
     Place("Vserossijskij muzej A.S.Pushkina i filialy",      F(6, 0),  1),
     Place("Muzej sovremennogo iskusstva Erarta",             F(7, 0),  16) >>

\* ------------------------------------------------------ Route, operator<<
RECURSIVE SumTime(_)
SumTime(s) == IF s = <<>> THEN 0 ELSE SumTime(SubSeq(s, 1, Len(s) - 1)) + s[Len(s)].time

RECURSIVE SumValue(_)
SumValue(s) == IF s = <<>> THEN 0 ELSE SumValue(SubSeq(s, 1, Len(s) - 1)) + s[Len(s)].value

\* the three numbers of the "Total time: ..; Total value: ..; Places visited: .." line
TotalTime(r)  == SumTime(r)
TotalValue(r) == SumValue(r)
Count(r)      == Len(r)

\* ------------------------------------------------------------ comparators
\* mutants of the comparators: the opposite order
CompTimeLess_Flipped(p1, p2) == p1.time > p2.time
CompValueGreater_Flipped(p1, p2) == p1.value < p2.value

CompTimeLess(p1, p2)     == p1.time < p2.time
CompTimeGreater(p1, p2)  == p1.time > p2.time
CompValueLess(p1, p2)    == p1.value < p2.value
CompValueGreater(p1, p2) == p1.value > p2.value

\* PlaceHV: a pointer into the catalog (its index) and value / time
PlaceHV(i) == [place |-> i, num |-> places[i].value, den |-> places[i].time]

IsNaN(h) == h.den = 0 /\ h.num = 0
IsInf(h) == h.den = 0 /\ h.num > 0

\* float comparison h1 > h2
FloatGreater(h1, h2) ==
  IF IsNaN(h1) \/ IsNaN(h2) THEN FALSE
  ELSE IF IsInf(h1) THEN ~IsInf(h2)
  ELSE IF IsInf(h2) THEN FALSE
  ELSE h1.num * h2.den > h2.num * h1.den

\* mutant: ascending importance per hour
CompHVGreater_Flipped(p1, p2) == FloatGreater(p2, p1)

CompHVGreater(p1, p2) == FloatGreater(p1, p2)

\* ---------------------------------------------------------------- std::sort
\* the comparator objects handed to std::sort; "none" stands for a comparator
\* that orders nothing
Compare(c, p1, p2) ==
  IF c = "CTL" THEN CompTimeLess(p1, p2)
  ELSE IF c = "CVG" THEN CompValueGreater(p1, p2)
  ELSE IF c = "CHVG" THEN CompHVGreater(p1, p2)
  ELSE FALSE

\* s[i] is placed before s[j]: the comparator decides, prio ranks equivalents
Before(s, c, p, i, j) ==
  \/ Compare(c, s[i], s[j])
  \/ ~Compare(c, s[j], s[i]) /\ p[i] < p[j]

Rank(s, c, p, i) ==
  1 + Cardinality({j \in 1..Len(s) : j # i /\ Before(s, c, p, j, i)})

StdSort(s, c, p) ==
  [k \in 1..Len(s) |-> s[CHOOSE i \in 1..Len(s) : Rank(s, c, p, i) = k]]

\* the vector placesHV
PlacesHV == [i \in 1..Len(places) |-> PlaceHV(i)]

\* a NaN key breaks the strict weak ordering std::sort requires: the result
\* is then whatever arrangement the build happens to leave
HVComparator(s) == IF \E i \in 1..Len(s) : IsNaN(s[i]) THEN "none" ELSE "CHVG"

SortHV(s, p) == StdSort(s, HVComparator(s), p)

\* the sets of positions of s that comparator c leaves equivalent
TieClasses(s, c) ==
  { G \in { {j \in 1..Len(s) : ~Compare(c, s[i], s[j]) /\ ~Compare(c, s[j], s[i])} :
              i \in 1..Len(s) } : Cardinality(G) > 1 }

\* the output position of every input position under a stable sort
StableRanks(s, c) == [i \in 1..Len(s) |-> Rank(s, c, [k \in 1..Len(s) |-> k], i)]

\* base with the ranks of every class of Gs rearranged in every way
RECURSIVE PrioOver(_, _)
PrioOver(base, Gs) ==
  IF Gs = {} THEN {base}
  ELSE LET G == CHOOSE X \in Gs : TRUE
       IN UNION { PrioOver([i \in DOMAIN base |-> IF i \in G THEN base[f[i]] ELSE base[i]],
                           Gs \ {G}) :
                    f \in {g \in [G -> G] : \A i, j \in G : i # j => g[i] # g[j]} }

\* every outcome std::sort(s, c) may have, as the output position of each
\* input position
TieOrders(s, c) == PrioOver(StableRanks(s, c), TieClasses(s, c))

\* the builds: an outcome for each of the three sort calls on the catalog
Builds ==
  [CTL : TieOrders(places, "CTL"),
   CVG : TieOrders(places, "CVG"),
   CHVG : TieOrders(PlacesHV, HVComparator(PlacesHV))]

\* ------------------------------------------------------------------- Init
NameOf == <<"p1", "p2", "p3", "p4", "p5", "p6", "p7", "p8">>

\* every catalog of at most MaxLen places, named by position, whose times are
\* drawn from Times
Catalogs(Times) ==
  UNION { { [i \in 1..n |-> Place(NameOf[i], tv[i][1], tv[i][2])] :
              tv \in [1..n -> Times \X (0..MaxValue)] } : n \in 0..MaxLen }

Locals ==
  /\ pc = "idle" /\ alg = "" /\ temp = <<>> /\ it = 1 /\ accTime = 0 /\ res = <<>>
  /\ out = [a \in Algs |-> {}]

\* catalogs as the program expects them: every duration is positive
Init ==
  /\ places \in Catalogs(1..MaxTime)
  /\ time \in 0..MaxBudget
  /\ prio \in Builds
  /\ Locals

\* catalogs that may hold places of duration 0
InitZero ==
  /\ places \in Catalogs(0..MaxTime)
  /\ time \in 0..MaxBudget
  /\ prio \in Builds
  /\ Locals

\* the reference catalog and budget
InitRef ==
  /\ places = RefPlaces
  /\ time = F(VISIT_TIME - SLEEP_TIME, 0)
  /\ prio \in Builds
  /\ Locals

\* ---------------------------------------------------------------- actions
\* the prologue of an algorithm: Route res; the sorted working copy; accTime = 0
Enter(a, sorted) ==
  /\ pc = "idle"
  /\ alg' = a
  /\ temp' = sorted
  /\ accTime' = 0
  /\ res' = <<>>
  /\ it' = 1
  /\ pc' = "loop"
  /\ UNCHANGED <<places, time, prio, out>>

\* mutant: std::sort applied to the catalog itself instead of to a copy
CallVisitMostPlaces_InPlace ==
  /\ pc = "idle"
  /\ places' = StdSort(places, "CTL", prio.CTL)
  /\ temp' = places'
  /\ alg' = "VisitMostPlaces" /\ accTime' = 0 /\ res' = <<>> /\ it' = 1 /\ pc' = "loop"
  /\ UNCHANGED <<time, prio, out>>

CallVisitMostPlaces ==
  /\ pc = "idle"
  /\ Enter("VisitMostPlaces", StdSort(places, "CTL", prio.CTL))

CallVisitByValue ==
  /\ pc = "idle"
  /\ Enter("VisitByValue", StdSort(places, "CVG", prio.CVG))

CallVisitByHourValue ==
  /\ pc = "idle"
  /\ Enter("VisitByHourValue", SortHV(PlacesHV, prio.CHVG))

\* mutant: the budget is tested before the place's time is added
Iterate_TestBeforeAdd(a, p) ==
  /\ pc = "loop" /\ alg = a /\ it <= Len(temp)
  /\ accTime' = accTime + p.time
  /\ IF accTime <= time
       THEN res' = Append(res, p) /\ it' = it + 1 /\ pc' = "loop"
       ELSE pc' = "break" /\ UNCHANGED <<res, it>>
  /\ UNCHANGED <<places, time, prio, alg, temp, out>>

\* mutant: a place that does not fit is skipped and the scan continues
Iterate_Skip(a, p) ==
  /\ pc = "loop" /\ alg = a /\ it <= Len(temp)
  /\ IF accTime + p.time <= time
       THEN accTime' = accTime + p.time /\ res' = Append(res, p)
       ELSE UNCHANGED <<accTime, res>>
  /\ it' = it + 1 /\ pc' = "loop"
  /\ UNCHANGED <<places, time, prio, alg, temp, out>>

\* one iteration of the range-for: accTime += p.time; push_back or break
Iterate(a, p) ==
  /\ pc = "loop" /\ alg = a /\ it <= Len(temp)
  /\ accTime' = accTime + p.time
  /\ IF accTime' <= time
       THEN res' = Append(res, p) /\ it' = it + 1 /\ pc' = "loop"
       ELSE pc' = "break" /\ UNCHANGED <<res, it>>
  /\ UNCHANGED <<places, time, prio, alg, temp, out>>

LoopVisitMostPlaces == pc = "loop" /\ it <= Len(temp) /\ Iterate("VisitMostPlaces", temp[it])

LoopVisitByValue == pc = "loop" /\ it <= Len(temp) /\ Iterate("VisitByValue", temp[it])

LoopVisitByHourValue ==
  pc = "loop" /\ alg = "VisitByHourValue" /\ it <= Len(temp)
  /\ Iterate("VisitByHourValue", places[temp[it].place])

\* return res; main prints the Route
Return ==
  /\ pc = "break" \/ (pc = "loop" /\ it > Len(temp))
  /\ out' = [out EXCEPT ![alg] = @ \cup {res}]
  /\ pc' = "idle" /\ alg' = "" /\ temp' = <<>> /\ it' = 1 /\ accTime' = 0 /\ res' = <<>>
  /\ UNCHANGED <<places, time, prio>>

Next ==
  \/ CallVisitMostPlaces
  \/ CallVisitByValue
  \/ CallVisitByHourValue
  \/ LoopVisitMostPlaces
  \/ LoopVisitByValue
  \/ LoopVisitByHourValue
  \/ Return

Spec == Init /\ [][Next]_vars

SpecZero == InitZero /\ [][Next]_vars

SpecRef == InitRef /\ [][Next]_vars

\* ============================================================= properties
AllPositive == \A i \in 1..Len(places) : places[i].time > 0

Returned(a) == out[a] # {}

AllReturned == \A a \in Algs : Returned(a)

\* the Routes an algorithm has returned, looked at in the states that follow a
\* return (out changes at a return only, and a return leaves pc = "idle")
Routes(a) == IF pc = "idle" THEN out[a] ELSE {}

\* the loop has run to its end or to its break: return is the next step
AtReturn == pc = "break" \/ (pc = "loop" /\ it > Len(temp))

\* position of a Place of a Route in the catalog (names are unique)
Pos(p) == CHOOSE k \in 1..Len(places) : places[k].name = p.name

InRoute(r, k) == \E i \in 1..Len(r) : r[i].name = places[k].name

\* the order in which an algorithm scans the catalog, as a sequence of Places
SortedOrder(a) ==
  IF a = "VisitMostPlaces" THEN StdSort(places, "CTL", prio.CTL)
  ELSE IF a = "VisitByValue" THEN StdSort(places, "CVG", prio.CVG)
  ELSE LET hv == SortHV(PlacesHV, prio.CHVG)
       IN [k \in 1..Len(places) |-> places[hv[k].place]]

\* the working copy a running algorithm scans, as a sequence of Places
Scanned ==
  IF alg = "VisitByHourValue" THEN [k \in 1..Len(temp) |-> places[temp[k].place]] ELSE temp

\* the longest prefix of s whose total time is within the budget
LongestPrefix(s) ==
  LET fit == {k \in 0..Len(s) : TotalTime(SubSeq(s, 1, k)) <= time}
  IN SubSeq(s, 1, CHOOSE k \in fit : \A m \in fit : m <= k)

RECURSIVE SetTime(_)
SetTime(S) ==
  IF S = {} THEN 0 ELSE LET k == CHOOSE x \in S : TRUE IN places[k].time + SetTime(S \ {k})

\* the largest number of places of the catalog that fit the budget together
MaxCard ==
  LET fit == {S \in SUBSET (1..Len(places)) : SetTime(S) <= time}
  IN CHOOSE n \in 0..Len(places) :
       /\ \E S \in fit : Cardinality(S) = n
       /\ \A S \in fit : Cardinality(S) <= n

\* C1: with positive durations (Init draws no other) and any budget, the total
\* time of the Route never exceeds the budget, neither while an algorithm
\* builds it nor once it is returned.
C1_WithinBudget ==
  /\ AllPositive
  /\ TotalTime(res) <= time
  /\ \A a \in Algs : \A r \in Routes(a) : TotalTime(r) <= time

\* C1 witness: a loop broke on an overflow after filling the budget exactly
C1_Witness ==
  /\ AllPositive /\ pc = "break" /\ accTime > time
  /\ res # <<>> /\ TotalTime(res) = time

\* C2: every returned Route is exactly the longest prefix of the algorithm's
\* sorted order that fits the budget, and a Route under construction is a
\* prefix of the working copy: nothing after the first overflow is taken.
C2_LongestPrefix ==
  /\ \A a \in Algs : \A r \in Routes(a) : r = LongestPrefix(SortedOrder(a))
  /\ pc # "idle" => res = SubSeq(Scanned, 1, Len(res))

\* C2 witness: a Route was returned although a place after the overflowing one
\* would still have fitted the remaining budget
C2_Witness ==
  \E a \in Algs : \E r \in out[a] : \E j \in 1..Len(places) :
    /\ j > Len(r) + 1
    /\ TotalTime(r) + SortedOrder(a)[j].time <= time

\* C3: on the reference catalog VisitMostPlaces returns 29 hours, importance
\* 114, 11 places, whatever order std::sort gives to places of equal time.
C3_RefMostPlaces ==
  \A r \in Routes("VisitMostPlaces") :
    TotalTime(r) = F(29, 0) /\ TotalValue(r) = 114 /\ Count(r) = 11

\* C4: on the reference catalog VisitByValue returns 25 hours, importance 90,
\* 5 places and VisitByHourValue 31.5 hours, importance 133, 10 places.
C4_RefValueAndRate ==
  /\ \A r \in Routes("VisitByValue") :
       TotalTime(r) = F(25, 0) /\ TotalValue(r) = 90 /\ Count(r) = 5
  /\ \A r \in Routes("VisitByHourValue") :
       TotalTime(r) = F(31, 1) /\ TotalValue(r) = 133 /\ Count(r) = 10

\* C4 witness: both algorithms returned, under a build that does not keep the
\* catalog order of the two places of equal importance per hour
C4_Witness ==
  /\ Returned("VisitByValue") /\ Returned("VisitByHourValue")
  /\ prio.CHVG[5] > prio.CHVG[13]

\* C5 as stated: on the reference catalog the Route of VisitByValue has at
\* least the total importance of the Routes of the other two algorithms.
C5_RefValueIsBest ==
  \A r \in Routes("VisitByValue") :
    \A q \in Routes("VisitMostPlaces") \cup Routes("VisitByHourValue") :
      TotalValue(r) >= TotalValue(q)

\* C5 amended: on the reference catalog the Route of VisitByValue has a
\* smaller total importance (90) than the Route of VisitMostPlaces (at least
\* 112) and than the Route of VisitByHourValue (133).
C5_RefValueIsWorst ==
  \A r \in Routes("VisitByValue") :
    /\ TotalValue(r) = 90
    /\ \A q \in Routes("VisitMostPlaces") : TotalValue(q) >= 112 /\ TotalValue(r) < TotalValue(q)
    /\ \A q \in Routes("VisitByHourValue") : TotalValue(q) = 133 /\ TotalValue(r) < TotalValue(q)

\* C5 witness: all three Routes of the reference catalog have been returned
C5_Witness == places = RefPlaces /\ AllReturned

\* C6: with positive durations (Init draws no other) VisitMostPlaces returns
\* at least as many places as VisitByValue and as VisitByHourValue.
C6_MostPlacesCount ==
  /\ AllPositive
  /\ \A r \in Routes("VisitMostPlaces") :
       \A q \in Routes("VisitByValue") \cup Routes("VisitByHourValue") : Count(r) >= Count(q)

\* C6 witness: VisitMostPlaces returned strictly more places than both others
C6_Witness ==
  /\ AllPositive /\ AllReturned
  /\ \A r \in out["VisitMostPlaces"] :
       \A q \in out["VisitByValue"] \cup out["VisitByHourValue"] : Count(r) > Count(q)

\* C7: no call changes the catalog, and once an algorithm has returned a Route
\* every later call of it, whatever was called in between, returns that Route.
C7_Idempotent ==
  [][ /\ places' = places
      /\ \A a \in Algs : Returned(a) => out'[a] = out[a] ]_vars

\* C7 witness: every algorithm has returned, and a further call of one of them
\* has rebuilt a non-empty Route and is about to return it
C7_Witness ==
  /\ AllReturned /\ AtReturn /\ res # <<>> /\ res \in out[alg]

\* C8 as stated: VisitByValue breaks ties of importance by catalog order, in
\* the Route and at the budget cut.
C8_StableTies ==
  \A r \in Routes("VisitByValue") :
    /\ \A i, j \in 1..Len(r) : i < j /\ r[i].value = r[j].value => Pos(r[i]) < Pos(r[j])
    /\ \A i \in 1..Len(r) : \A k \in 1..Len(places) :
         ~InRoute(r, k) /\ places[k].value = r[i].value => Pos(r[i]) < k

\* C8 amended: the Route of VisitByValue is in order of non-increasing
\* importance and no place left out is more important than a place taken;
\* the order and the choice among places of equal importance are unspecified.
C8_DescendingValue ==
  \A r \in Routes("VisitByValue") :
    /\ \A i, j \in 1..Len(r) : i < j => r[i].value >= r[j].value
    /\ \A i \in 1..Len(r) : \A k \in 1..Len(places) :
         ~InRoute(r, k) => places[k].value <= r[i].value

\* C8 witness: a Route leaves out a place of the catalog that precedes a taken
\* place of the same importance
C8_Witness ==
  \E r \in out["VisitByValue"] :
    \E i \in 1..Len(r) : \E k \in 1..Len(places) :
      ~InRoute(r, k) /\ places[k].value = r[i].value /\ k < Pos(r[i])

\* C9: with a budget of 0 every Route is empty when all durations are
\* positive, and otherwise holds only places of duration 0.
C9_ZeroBudget ==
  time = 0 =>
    \A a \in Algs : \A r \in Routes(a) :
      /\ AllPositive => Count(r) = 0 /\ TotalTime(r) = 0 /\ TotalValue(r) = 0
      /\ \A i \in 1..Len(r) : r[i].time = 0

\* C9 witness: budget 0 and a catalog with a place of duration 0 and a place of
\* positive duration; every algorithm returned a Route, one of them not empty
C9_Witness ==
  /\ time = 0 /\ AllReturned
  /\ \E i, j \in 1..Len(places) : places[i].time = 0 /\ places[j].time > 0
  /\ \E a \in Algs : <<>> \notin out[a]

\* C10: with positive durations (Init draws no other) the Route of
\* VisitMostPlaces has as many places as the largest set of places of the
\* catalog that fits the budget, whatever the order of places of equal time.
C10_MostPlacesOptimal ==
  /\ AllPositive
  /\ \A r \in Routes("VisitMostPlaces") : Count(r) = MaxCard

\* C10 witness: VisitMostPlaces took some but not all places of a catalog that
\* is not sorted by time
C10_Witness ==
  /\ AllPositive
  /\ \E r \in out["VisitMostPlaces"] : 0 < Count(r) /\ Count(r) < Len(places)
  /\ \E i, j \in 1..Len(places) : i < j /\ places[i].time > places[j].time

====
